---- MODULE Spec2Model ----
(***************************************************************************)
(* Model of ml_math (src/src/lib.rs): MeanIncrementor, a running mean, and *)
(* VarianceIncrementor, a running variance that owns a MeanIncrementor.    *)
(*                                                                         *)
(* f64 values and their arithmetic are modelled bit for bit (IEEE 754      *)
(* binary64, round to nearest even); since a mantissa has 53 bits, natural *)
(* numbers of any size are kept as digit sequences.  NaN is one value      *)
(* (sign and payload are not kept).  The u32 count is modelled with        *)
(* CountWidth bits.  Integer overflow is decided by the build: with        *)
(* overflow checks (debug) it panics, without (release) it wraps.          *)
(***************************************************************************)
EXTENDS Integers, Sequences, FiniteSets, TLC

\* ---------------------------------------------------------------- bounds
CountWidth == 3
MaxAdds == 4

RECURSIVE Pow2(_)
Pow2(k) == IF k = 0 THEN 1 ELSE 2 * Pow2(k - 1)

\* count: u32 holds 0 .. Modulus-1
Modulus == Pow2(CountWidth)
MaxWrapAdds == Modulus + 1

\* ------------------------------------------- natural numbers of any size
\* A natural number is the sequence of its digits in base Base, lowest
\* first, without leading zero digits; <<>> is 0.
LimbBits == 15
Base == Pow2(LimbBits)

Hd(a) == IF a = <<>> THEN 0 ELSE Head(a)
Tl(a) == IF a = <<>> THEN <<>> ELSE Tail(a)
Min(a, b) == IF a < b THEN a ELSE b
Max(a, b) == IF a > b THEN a ELSE b

RECURSIVE BTrim(_)
BTrim(a) ==
  IF a = <<>> THEN <<>>
  ELSE IF a[Len(a)] = 0 THEN BTrim(SubSeq(a, 1, Len(a) - 1))
  ELSE a

RECURSIVE BFromInt(_)
BFromInt(n) == IF n = 0 THEN <<>> ELSE <<n % Base>> \o BFromInt(n \div Base)

RECURSIVE BAddC(_, _, _)
BAddC(a, b, c) ==
  IF a = <<>> /\ b = <<>>
  THEN (IF c = 0 THEN <<>> ELSE <<c>>)
  ELSE LET t == Hd(a) + Hd(b) + c
       IN  <<t % Base>> \o BAddC(Tl(a), Tl(b), t \div Base)

BAdd(a, b) == BAddC(a, b, 0)

\* a - b - c for a >= b + c, digits not yet trimmed
RECURSIVE BSubC(_, _, _)
BSubC(a, b, c) ==
  IF a = <<>> THEN <<>>
  ELSE LET t == Head(a) - Hd(b) - c
       IN  IF t < 0 THEN <<t + Base>> \o BSubC(Tail(a), Tl(b), 1)
           ELSE <<t>> \o BSubC(Tail(a), Tl(b), 0)

BSub(a, b) == BTrim(BSubC(a, b, 0))

\* -1, 0, 1 as a < b, a = b, a > b, comparing from digit i down
RECURSIVE BCmpFrom(_, _, _)
BCmpFrom(a, b, i) ==
  IF i = 0 THEN 0
  ELSE IF a[i] < b[i] THEN -1
  ELSE IF a[i] > b[i] THEN 1
  ELSE BCmpFrom(a, b, i - 1)

BCmp(a, b) ==
  IF Len(a) < Len(b) THEN -1
  ELSE IF Len(a) > Len(b) THEN 1
  ELSE BCmpFrom(a, b, Len(a))

\* a * k + c for one digit k
RECURSIVE BMulSmallC(_, _, _)
BMulSmallC(a, k, c) ==
  IF a = <<>>
  THEN (IF c = 0 THEN <<>> ELSE <<c>>)
  ELSE LET t == Head(a) * k + c
       IN  <<t % Base>> \o BMulSmallC(Tail(a), k, t \div Base)

BMulSmall(a, k) == IF k = 0 THEN <<>> ELSE BMulSmallC(a, k, 0)

BShiftLimb(a) == IF a = <<>> THEN <<>> ELSE <<0>> \o a

RECURSIVE BMul(_, _)
BMul(a, b) ==
  IF b = <<>> \/ a = <<>> THEN <<>>
  ELSE BAdd(BMulSmall(a, Head(b)), BShiftLimb(BMul(a, Tail(b))))

\* quotient and remainder of a by d, 0 < d <= Base
RECURSIVE BDivSmallR(_, _)
BDivSmallR(a, d) ==
  IF a = <<>> THEN [q |-> <<>>, r |-> 0]
  ELSE LET hi == BDivSmallR(Tail(a), d)
           cur == hi.r * Base + Head(a)
       IN  [q |-> <<cur \div d>> \o hi.q, r |-> cur % d]

BDivSmall(a, d) ==
  LET x == BDivSmallR(a, d) IN [q |-> BTrim(x.q), r |-> x.r]

\* a * 2^n
BShl(a, n) ==
  IF a = <<>> THEN <<>>
  ELSE [i \in 1..(n \div LimbBits) |-> 0] \o BMulSmall(a, Pow2(n % LimbBits))

\* floor(a / 2^n): whole digits dropped, then each digit takes the low bits
\* of the digit above it
BShr(a, n) ==
  IF n \div LimbBits >= Len(a) THEN <<>>
  ELSE LET t == SubSeq(a, n \div LimbBits + 1, Len(a))
           p == Pow2(n % LimbBits)
           up(i) == IF i < Len(t) THEN t[i + 1] ELSE 0
       IN  BTrim([i \in 1..Len(t) |-> t[i] \div p + (up(i) % p) * (Base \div p)])

RECURSIVE IntBitLen(_)
IntBitLen(n) == IF n = 0 THEN 0 ELSE 1 + IntBitLen(n \div 2)

BBitLen(a) == IF a = <<>> THEN 0 ELSE (Len(a) - 1) * LimbBits + IntBitLen(a[Len(a)])

\* bit i (from 0) of a
BBit(a, i) ==
  IF i \div LimbBits >= Len(a) THEN 0
  ELSE (a[i \div LimbBits + 1] \div Pow2(i % LimbBits)) % 2

\* a mod 2^n = 0
BLowZero(a, n) ==
  /\ \A i \in 1..Min(n \div LimbBits, Len(a)) : a[i] = 0
  /\ n \div LimbBits < Len(a) => a[n \div LimbBits + 1] % Pow2(n % LimbBits) = 0

\* number of trailing zero bits of n > 0, and of a > 0
RECURSIVE IntTrailingZeros(_)
IntTrailingZeros(n) == IF n % 2 = 1 THEN 0 ELSE 1 + IntTrailingZeros(n \div 2)

BTrailingZeros(a) ==
  LET i == CHOOSE i \in 1..Len(a) : a[i] /= 0 /\ \A j \in 1..(i - 1) : a[j] = 0
  IN  (i - 1) * LimbBits + IntTrailingZeros(a[i])

\* one digit of a quotient: floor(r / b) and the remainder, for r < b * 2^(i+1)
RECURSIVE BDigit(_, _, _)
BDigit(r, b, i) ==
  IF i < 0 THEN [q |-> 0, r |-> r]
  ELSE IF BCmp(r, BShl(b, i)) >= 0
  THEN LET x == BDigit(BSub(r, BShl(b, i)), b, i - 1)
       IN  [q |-> Pow2(i) + x.q, r |-> x.r]
  ELSE BDigit(r, b, i - 1)

\* quotient and remainder of a by any b > 0
RECURSIVE BDivModR(_, _)
BDivModR(a, b) ==
  IF a = <<>> THEN [q |-> <<>>, r |-> <<>>]
  ELSE LET hi == BDivModR(Tail(a), b)
           cur == BAdd(BShiftLimb(hi.r), BFromInt(Head(a)))
           d == BDigit(cur, b, LimbBits - 1)
       IN  [q |-> <<d.q>> \o hi.q, r |-> d.r]

BDivMod(a, b) ==
  IF Len(b) = 1
  THEN LET x == BDivSmall(a, b[1]) IN [q |-> x.q, r |-> BFromInt(x.r)]
  ELSE LET x == BDivModR(a, b) IN [q |-> BTrim(x.q), r |-> x.r]

\* -------------------------------------------------------------------- f64
\* An f64 is a record: k = "fin" for the finite value s * m * 2^e (s = 1 or
\* -1, m a natural number that is odd, or 0 with e = 0: the zeros +0, -0),
\* k = "inf" for s * infinity, k = "nan" for NaN.  Arithmetic is IEEE 754
\* binary64, round to nearest, ties to even, with subnormals and overflow.
MantBits == 53
MinExp == -1074
MaxExp == 1024

Abs(x) == IF x < 0 THEN -x ELSE x

NaN == [k |-> "nan", s |-> 1, m |-> <<>>, e |-> 0]
Inf(s) == [k |-> "inf", s |-> s, m |-> <<>>, e |-> 0]
FZero(s) == [k |-> "fin", s |-> s, m |-> <<>>, e |-> 0]

\* the record of s * m * 2^e, an exact value (any number of bits)
CanonAt(s, m, e, tz) == [k |-> "fin", s |-> s, m |-> BShr(m, tz), e |-> e + tz]

Canon(s, m, e) == IF m = <<>> THEN FZero(s) ELSE CanonAt(s, m, e, BTrailingZeros(m))

\* n * 2^e for an integer n
Dy(n, e) == Canon(IF n < 0 THEN -1 ELSE 1, BFromInt(Abs(n)), e)

Zero == FZero(1)
One == [k |-> "fin", s |-> 1, m |-> <<1>>, e |-> 0]
IsZero(x) == x.k = "fin" /\ x.m = <<>>
IsFinite(x) == x.k = "fin"

\* exact sum, product and order of finite values
XNeg(x) == [x EXCEPT !.s = -x.s]

\* sx * a * 2^e + sy * b * 2^e, with c the order of a and b
XAddOrdered(sx, a, sy, b, e, c) ==
  IF sx = sy THEN Canon(sx, BAdd(a, b), e)
  ELSE IF c = 0 THEN FZero(1)
  ELSE Canon(IF c > 0 THEN sx ELSE sy, IF c > 0 THEN BSub(a, b) ELSE BSub(b, a), e)

XAddAligned(sx, a, sy, b, e) == XAddOrdered(sx, a, sy, b, e, BCmp(a, b))

XAddAt(x, y, e) == XAddAligned(x.s, BShl(x.m, x.e - e), y.s, BShl(y.m, y.e - e), e)

XAdd(x, y) ==
  IF x.m = <<>> THEN (IF y.m = <<>> THEN FZero(1) ELSE y)
  ELSE IF y.m = <<>> THEN x
  ELSE XAddAt(x, y, Min(x.e, y.e))

XSub(x, y) == XAdd(x, XNeg(y))
XMul(x, y) == Canon(x.s * y.s, BMul(x.m, y.m), x.e + y.e)
XSign(x) == IF x.m = <<>> THEN 0 ELSE x.s
XAbs(x) == [x EXCEPT !.s = 1]
XLeq(x, y) == XSign(XSub(x, y)) <= 0

\* the f64 nearest to the exact value s * n * 2^e
\* k is the number of low bits of n that do not fit, q0 the bits that do:
\* q0 goes up by one when the dropped bits are more than half a unit of q0,
\* or exactly half and q0 is odd; a result of 2^MaxExp or more is infinite
RoundTo(s, q, qe) == IF BBitLen(q) + qe > MaxExp THEN Inf(s) ELSE Canon(s, q, qe)

RoundHalfEven(s, n, qe, k, q0) ==
  RoundTo(s,
          IF BBit(n, k - 1) = 1 /\ (~BLowZero(n, k - 1) \/ BBit(q0, 0) = 1)
          THEN BAdd(q0, <<1>>) ELSE q0,
          qe)

RoundAt(s, n, e, k) ==
  IF k <= 0 THEN RoundTo(s, n, e) ELSE RoundHalfEven(s, n, e + k, k, BShr(n, k))

Round(s, n, e) == RoundAt(s, n, e, Max(BBitLen(n) - MantBits, MinExp - e))

\* n as f64
FromU32(n) == Dy(n, 0)

\* 2^Top(x) is the least power of two above |x|; an addend more than
\* FarBelow binary places below the other is less than a quarter of its
\* last place and leaves it unchanged
Top(x) == BBitLen(x.m) + x.e
FarBelow == MantBits + 3

FNeg(x) == IF x.k = "nan" THEN NaN ELSE [x EXCEPT !.s = -x.s]

\* the rounded sum, given the exact sum z: an exact zero sum is +0 unless
\* both operands are negative
FAddExact(x, y, z) ==
  IF z.m = <<>> THEN FZero(IF x.s = y.s THEN x.s ELSE 1) ELSE Round(z.s, z.m, z.e)

FAdd(x, y) ==
  IF x.k = "nan" \/ y.k = "nan" THEN NaN
  ELSE IF x.k = "inf" THEN (IF y.k = "inf" /\ y.s /= x.s THEN NaN ELSE x)
  ELSE IF y.k = "inf" THEN y
  ELSE IF ~IsZero(x) /\ ~IsZero(y) /\ Top(y) < Top(x) - FarBelow THEN x
  ELSE IF ~IsZero(x) /\ ~IsZero(y) /\ Top(x) < Top(y) - FarBelow THEN y
  ELSE FAddExact(x, y, XAdd(x, y))

FSub(x, y) == FAdd(x, FNeg(y))

FMul(x, y) ==
  IF x.k = "nan" \/ y.k = "nan" THEN NaN
  ELSE IF x.k = "inf" \/ y.k = "inf"
  THEN (IF IsZero(x) \/ IsZero(y) THEN NaN ELSE Inf(x.s * y.s))
  ELSE Round(x.s * y.s, BMul(x.m, y.m), x.e + y.e)

\* the rounded quotient of finite non-zero x, y: x.m * 2^j / y.m has at
\* least MantBits + 2 bits; d is its integer quotient and remainder, and a
\* non-zero remainder is kept as one more low bit
FDivQuot(x, y, j, d) ==
  Round(x.s * y.s, BAdd(BShl(d.q, 1), IF d.r = <<>> THEN <<>> ELSE <<1>>), x.e - y.e - j - 1)

FDivAt(x, y, j) == FDivQuot(x, y, j, BDivMod(BShl(x.m, j), y.m))

FDiv(x, y) ==
  IF x.k = "nan" \/ y.k = "nan" THEN NaN
  ELSE IF x.k = "inf" THEN (IF y.k = "inf" THEN NaN ELSE Inf(x.s * y.s))
  ELSE IF y.k = "inf" THEN FZero(x.s * y.s)
  ELSE IF IsZero(y) THEN (IF IsZero(x) THEN NaN ELSE Inf(x.s * y.s))
  ELSE IF IsZero(x) THEN FZero(x.s * y.s)
  ELSE FDivAt(x, y, Max(0, MantBits + 2 + BBitLen(y.m) - BBitLen(x.m)))

\* x.powi(2)
Powi2(x) == FMul(x, x)

\* --------------------------------------------------------- u32 arithmetic
\* a + b on u32: the wrapped value, and whether the exact sum is out of range
U32Add(a, b) == [val |-> (a + b) % Modulus, overflow |-> a + b >= Modulus]
U32Sub(a, b) == [val |-> (a - b + Modulus) % Modulus, overflow |-> a < b]

\* -------------------------------------------------------- MeanIncrementor
MeanIncrementor_new == [mean |-> Zero, count |-> 0]

\* a faulty variant of add: the weight 1/count taken before the increment
MeanAddOldCountWeight(self, value, checks) ==
  LET inc == U32Add(self.count, 1)
  IN  IF self.count = 0
      THEN \* line 33, then count += 1 at line 38
           IF inc.overflow /\ checks
           THEN [self |-> [mean |-> value, count |-> self.count],
                 overflow |-> TRUE, panic |-> TRUE]
           ELSE [self |-> [mean |-> value, count |-> inc.val],
                 overflow |-> inc.overflow, panic |-> FALSE]
      ELSE \* line 35: (self.count + 1) as f64
           IF inc.overflow /\ checks
           THEN [self |-> self, overflow |-> TRUE, panic |-> TRUE]
           ELSE LET weight_per_value == FDiv(One, FromU32(self.count))
                IN  [self |-> [mean |-> FAdd(FMul(self.mean, FSub(One, weight_per_value)),
                                             FMul(value, weight_per_value)),
                               count |-> inc.val],
                     overflow |-> inc.overflow, panic |-> FALSE]

\* add(&mut self, value): the new self, whether an integer operation
\* overflowed, and whether the call panicked (self is then left as it was
\* when the panic was raised)
MeanIncrementor_add(self, value, checks) ==
  LET inc == U32Add(self.count, 1)
  IN  IF self.count = 0
      THEN \* line 33, then count += 1 at line 38
           IF inc.overflow /\ checks
           THEN [self |-> [mean |-> value, count |-> self.count],
                 overflow |-> TRUE, panic |-> TRUE]
           ELSE [self |-> [mean |-> value, count |-> inc.val],
                 overflow |-> inc.overflow, panic |-> FALSE]
      ELSE \* line 35: (self.count + 1) as f64
           IF inc.overflow /\ checks
           THEN [self |-> self, overflow |-> TRUE, panic |-> TRUE]
           ELSE LET weight_per_value == FDiv(One, FromU32(inc.val))
                IN  [self |-> [mean |-> FAdd(FMul(self.mean, FSub(One, weight_per_value)),
                                             FMul(value, weight_per_value)),
                               count |-> inc.val],
                     overflow |-> inc.overflow, panic |-> FALSE]

MeanIncrementor_mean(self) == self.mean
MeanIncrementor_count(self) == self.count

\* ---------------------------------------------------- VarianceIncrementor
VarianceIncrementor_new == [variance |-> Zero, mean_incrementor |-> MeanIncrementor_new]

\* the result of add once the owned mean_incrementor returned m and the
\* recurrence of line 97 gave variance: a panic leaves self.variance as it
\* was; with n = 0 the variance is 0 (line 95)
VarianceAdded(self, n, checks, m, variance) ==
  LET arith == n /= 0 /\ (U32Sub(n, 1).overflow \/ U32Add(n, 1).overflow)
  IN  IF m.panic \/ (arith /\ checks)
      THEN [self |-> [variance |-> self.variance, mean_incrementor |-> m.self],
            overflow |-> TRUE, panic |-> TRUE]
      ELSE [self |-> [variance |-> IF n = 0 THEN Zero ELSE variance,
                      mean_incrementor |-> m.self],
            overflow |-> m.overflow \/ arith, panic |-> FALSE]

\* faulty variants of add: the deviation taken from the updated mean, the
\* correction divided by n, the old variance not rescaled, the correction
\* subtracted
VarAddPostMean(self, value, checks) ==
  LET n == MeanIncrementor_count(self.mean_incrementor)
      previous_mean == MeanIncrementor_mean(MeanIncrementor_add(self.mean_incrementor, value, checks).self)
  IN  VarianceAdded(self, n, checks,
                    MeanIncrementor_add(self.mean_incrementor, value, checks),
                    FAdd(FMul(FDiv(FromU32(U32Sub(n, 1).val), FromU32(n)), self.variance),
                         FDiv(Powi2(FSub(value, previous_mean)), FromU32(U32Add(n, 1).val))))

VarAddDivN(self, value, checks) ==
  LET n == MeanIncrementor_count(self.mean_incrementor)
      previous_mean == MeanIncrementor_mean(self.mean_incrementor)
  IN  VarianceAdded(self, n, checks,
                    MeanIncrementor_add(self.mean_incrementor, value, checks),
                    FAdd(FMul(FDiv(FromU32(U32Sub(n, 1).val), FromU32(n)), self.variance),
                         FDiv(Powi2(FSub(value, previous_mean)), FromU32(n))))

VarAddNoRescale(self, value, checks) ==
  LET n == MeanIncrementor_count(self.mean_incrementor)
      previous_mean == MeanIncrementor_mean(self.mean_incrementor)
  IN  VarianceAdded(self, n, checks,
                    MeanIncrementor_add(self.mean_incrementor, value, checks),
                    FAdd(self.variance,
                         FDiv(Powi2(FSub(value, previous_mean)), FromU32(U32Add(n, 1).val))))

VarAddSubtract(self, value, checks) ==
  LET n == MeanIncrementor_count(self.mean_incrementor)
      previous_mean == MeanIncrementor_mean(self.mean_incrementor)
  IN  VarianceAdded(self, n, checks,
                    MeanIncrementor_add(self.mean_incrementor, value, checks),
                    FSub(FMul(FDiv(FromU32(U32Sub(n, 1).val), FromU32(n)), self.variance),
                         FDiv(Powi2(FSub(value, previous_mean)), FromU32(U32Add(n, 1).val))))

\* add(&mut self, value), lines 89-99
VarianceIncrementor_add(self, value, checks) ==
  LET n == MeanIncrementor_count(self.mean_incrementor)
      previous_mean == MeanIncrementor_mean(self.mean_incrementor)
  IN  VarianceAdded(self, n, checks,
                    MeanIncrementor_add(self.mean_incrementor, value, checks),
                    FAdd(FMul(FDiv(FromU32(U32Sub(n, 1).val), FromU32(n)), self.variance),
                         FDiv(Powi2(FSub(value, previous_mean)), FromU32(U32Add(n, 1).val))))

VarianceIncrementor_variance(self) == self.variance
VarianceMeanReadsVariance(self) == self.variance
VarianceIncrementor_mean(self) == MeanIncrementor_mean(self.mean_incrementor)
VarianceIncrementor_count(self) == MeanIncrementor_count(self.mean_incrementor)


\* ------------------------------------------------------------------ state
\* A driver owns one MeanIncrementor and one VarianceIncrementor.  Each is
\* fed, at its own pace, the values of one stream (so the two receive the
\* same values in the same order, one possibly far behind the other or not
\* fed at all), and their accessors are read.
VARIABLES
  mean_incr,        \* the standalone MeanIncrementor
  variance_incr,    \* the VarianceIncrementor (owns its own MeanIncrementor)
  vals,             \* the stream of values drawn so far
  m_calls,          \* number of mean_incr.add calls made
  v_calls,          \* number of variance_incr.add calls made
  overflow_checks,  \* TRUE: integer overflow panics; FALSE: it wraps
  fault             \* "none", "wrap" (an integer wrapped), "panic" (aborted)

vars == <<mean_incr, variance_incr, vals, m_calls, v_calls, overflow_checks, fault>>

\* input values: negative and fractional, zero, and the values of the tests
Values == {Dy(-3, -1), Zero, One, Dy(2, 0)}
WrapValues == {Dy(-3, -1), One}
\* values whose squares are below the least positive f64
TinyValues == {Dy(-3, -1), Zero, Dy(1, -600)}

Init ==
  /\ mean_incr = MeanIncrementor_new
  /\ variance_incr = VarianceIncrementor_new
  /\ vals = <<>>
  /\ m_calls = 0
  /\ v_calls = 0
  /\ overflow_checks \in BOOLEAN
  /\ fault = "none"

\* the i-th value of the stream is value: read back, or drawn now
InputAt(i, value, limit) ==
  IF i <= Len(vals)
  THEN value = vals[i] /\ vals' = vals
  ELSE Len(vals) < limit /\ vals' = Append(vals, value)

FaultAfter(r) ==
  IF r.panic THEN "panic" ELSE IF r.overflow THEN "wrap" ELSE fault

\* an add that returned r leaves the object as r.self
MeanAdded(r) == mean_incr' = r.self /\ fault' = FaultAfter(r)
VarAdded(r) == variance_incr' = r.self /\ fault' = FaultAfter(r)

MeanAdd(value, limit) ==
  /\ fault /= "panic"
  /\ InputAt(m_calls + 1, value, limit)
  /\ MeanAdded(MeanIncrementor_add(mean_incr, value, overflow_checks))
  /\ m_calls' = m_calls + 1
  /\ UNCHANGED <<variance_incr, v_calls, overflow_checks>>

VarAdd(value, limit) ==
  /\ fault /= "panic"
  /\ InputAt(v_calls + 1, value, limit)
  /\ VarAdded(VarianceIncrementor_add(variance_incr, value, overflow_checks))
  /\ v_calls' = v_calls + 1
  /\ UNCHANGED <<mean_incr, m_calls, overflow_checks>>

\* the accessors take &self: they return a value and assign nothing
MeanMean ==
  /\ fault /= "panic"
  /\ MeanIncrementor_mean(mean_incr) \in {mean_incr.mean}
  /\ UNCHANGED vars

MeanCount ==
  /\ fault /= "panic"
  /\ MeanIncrementor_count(mean_incr) \in {mean_incr.count}
  /\ UNCHANGED vars

VarVariance ==
  /\ fault /= "panic"
  /\ VarianceIncrementor_variance(variance_incr) \in {variance_incr.variance}
  /\ UNCHANGED vars

VarMean ==
  /\ fault /= "panic"
  /\ VarianceIncrementor_mean(variance_incr) \in {variance_incr.mean_incrementor.mean}
  /\ UNCHANGED vars

VarCount ==
  /\ fault /= "panic"
  /\ VarianceIncrementor_count(variance_incr) \in {variance_incr.mean_incrementor.count}
  /\ UNCHANGED vars

Next ==
  \/ \E value \in Values : MeanAdd(value, MaxAdds)
  \/ \E value \in Values : VarAdd(value, MaxAdds)
  \/ MeanMean
  \/ MeanCount
  \/ VarVariance
  \/ VarMean
  \/ VarCount

Spec == Init /\ [][Next]_vars

\* the same driver, run long enough for count to pass Modulus - 1
NextWrap ==
  \/ \E value \in WrapValues : MeanAdd(value, MaxWrapAdds)
  \/ \E value \in WrapValues : VarAdd(value, MaxWrapAdds)
  \/ MeanMean
  \/ MeanCount
  \/ VarVariance
  \/ VarMean
  \/ VarCount

SpecWrap == Init /\ [][NextWrap]_vars

\* the same driver, fed values so small that their squares underflow
NextTiny ==
  \/ \E value \in TinyValues : MeanAdd(value, MaxAdds)
  \/ \E value \in TinyValues : VarAdd(value, MaxAdds)
  \/ MeanMean
  \/ MeanCount
  \/ VarVariance
  \/ VarMean
  \/ VarCount

SpecTiny == Init /\ [][NextTiny]_vars

\* ------------------------------------------------- reference (batch) maths
\* Exact arithmetic on the values fed: sums and products carry every bit.
m_vals == SubSeq(vals, 1, m_calls)
v_vals == SubSeq(vals, 1, v_calls)

RECURSIVE XSum(_)
XSum(s) == IF s = <<>> THEN Zero ELSE XAdd(XSum(SubSeq(s, 1, Len(s) - 1)), s[Len(s)])

\* n^2 times the sum of squared deviations from the mean, n = Len(s):
\* the sum of (n * s[i] - sum)^2
ScaledSumSqDev(s) ==
  XSum([i \in 1..Len(s) |->
         LET d == XSub(XMul(Dy(Len(s), 0), s[i]), XSum(s)) IN XMul(d, d)])

\* the floating-point tolerance of the comparisons below
Tol == Dy(1, -40)

\* the f64 x is within Tol of the exact quotient num / den (den > 0)
Close(x, num, den) ==
  /\ IsFinite(x)
  /\ XLeq(XAbs(XSub(XMul(x, Dy(den, 0)), num)), XMul(Tol, Dy(den, 0)))

\* the f64 values x and y are within Tol
Near(x, y) == IsFinite(x) /\ IsFinite(y) /\ XLeq(XAbs(XSub(x, y)), Tol)

RECURSIVE InsertSorted(_, _)
InsertSorted(x, s) ==
  IF s = <<>> THEN <<x>>
  ELSE IF XLeq(x, Head(s)) THEN <<x>> \o s
  ELSE <<Head(s)>> \o InsertSorted(x, Tail(s))

RECURSIVE Sorted(_)
Sorted(s) == IF s = <<>> THEN <<>> ELSE InsertSorted(Head(s), Sorted(Tail(s)))

Reversed(s) == [i \in 1..Len(s) |-> s[Len(s) + 1 - i]]

\* the VarianceIncrementor after adding the values of s, in order, to a
\* fresh one
RECURSIVE RunVariance(_)
RunVariance(s) ==
  IF s = <<>> THEN VarianceIncrementor_new
  ELSE VarianceIncrementor_add(RunVariance(SubSeq(s, 1, Len(s) - 1)), s[Len(s)],
                               overflow_checks).self

\* ----------------------------------------------------------------- claims
\* In the claims below a computed f64 "is" an exact quantity when it is
\* within Tol of it; counts, and the values the repository's tests assert
\* with assert_eq, are compared exactly.
Variance == VarianceIncrementor_variance(variance_incr)
VMean == VarianceIncrementor_mean(variance_incr)
VCount == VarianceIncrementor_count(variance_incr)
MMean == MeanIncrementor_mean(mean_incr)
MCount == MeanIncrementor_count(mean_incr)

\* C1 (as stated): after each add, variance() is the population variance
\* (sum of squared deviations divided by count) of the values added so far.
C1_PopulationVariance ==
  v_calls >= 1 =>
    Close(Variance, ScaledSumSqDev(v_vals), v_calls * v_calls * v_calls)

\* C1 (amended): after each add, variance() is the sum of squared deviations
\* from the mean of the values added so far divided by count - 1 (0 after a
\* single value); for exactly two values a, b it is (a-mean)^2 + (b-mean)^2.
C1_SampleVariance ==
  /\ v_calls = 1 => Variance = Zero
  /\ v_calls >= 2 =>
       Close(Variance, ScaledSumSqDev(v_vals), v_calls * v_calls * (v_calls - 1))
  /\ v_calls = 2 =>
       LET da == XSub(v_vals[1], VMean)
           db == XSub(v_vals[2], VMean)
       IN  Close(Variance, XAdd(XMul(da, da), XMul(db, db)), 1)

C1_Witness ==
  /\ v_calls = 2
  /\ v_vals = <<Dy(-3, -1), Dy(2, 0)>>
  /\ Variance = Dy(49, -3)

\* C2: mean() is 0 before any add, and after each add it is the sum of the
\* values added so far divided by their number.
C2_Mean ==
  /\ m_calls = 0 => MMean = Zero
  /\ m_calls >= 1 => Close(MMean, XSum(m_vals), m_calls)

C2_Witness ==
  /\ m_calls = 3
  /\ m_vals = <<Dy(-3, -1), One, Dy(2, 0)>>
  /\ Near(MMean, Dy(1, -1))
  /\ MMean /= Dy(1, -1)

\* C3: after 0, 1 variance() is 1/2 and after 0, 1, 2 it is 1; from the
\* second value on, an add with n values and mean previous_mean before it
\* leaves variance() = (n-1)/n * variance_old + (value - previous_mean)^2 /
\* (n+1), and this is the sum of squared deviations divided by count - 1.
C3_Recurrence ==
  /\ v_vals = <<Zero, One>> => Variance = Dy(1, -1)
  /\ v_vals = <<Zero, One, Dy(2, 0)>> => Variance = One
  /\ v_calls >= 2 =>
       LET n == v_calls - 1
           old == RunVariance(SubSeq(v_vals, 1, n))
           dev == XSub(v_vals[v_calls], VarianceIncrementor_mean(old))
       IN  /\ Close(Variance,
                    XAdd(XMul(Dy((n - 1) * (n + 1), 0), VarianceIncrementor_variance(old)),
                         XMul(Dy(n, 0), XMul(dev, dev))),
                    n * (n + 1))
           /\ Close(Variance, ScaledSumSqDev(v_vals), v_calls * v_calls * n)

C3_Witness ==
  /\ v_vals = <<Zero, One, Dy(2, 0)>>
  /\ Variance = One
  /\ VMean = One

\* C4: count() of each incrementor is the number of add calls made on it.
C4_CountEqualsCalls ==
  /\ MCount = m_calls
  /\ VCount = v_calls

\* C5: no add call panics and no integer operation of an add overflows.
C5_NoFault == fault = "none"

\* C6: whenever count() <= 1 the variance is exactly 0, and after a single
\* add(V) on a fresh instance variance() = 0, mean() = V and count() = 1.
C6_ZeroVarianceUpToOne ==
  /\ VCount <= 1 => Variance = Zero
  /\ v_calls = 1 /\ fault = "none" => VMean = vals[1] /\ VCount = 1

\* C7: the values added so far, added to a fresh VarianceIncrementor in
\* another order (ascending; reversed), give the same mean(), variance() and
\* count(), and these are the batch mean and the batch variance (divisor
\* count - 1, and 0 for a single value) of the multiset of values.  Every
\* ordering of a multiset is itself a sequence the driver feeds.
C7_OrderIndependent ==
  v_calls >= 1 =>
    LET multiset == Sorted(v_vals)
        n == Len(multiset)
        asc == RunVariance(multiset)
        rev == RunVariance(Reversed(v_vals))
    IN  /\ VCount = n
        /\ VarianceIncrementor_count(asc) = VCount
        /\ VarianceIncrementor_count(rev) = VCount
        /\ Near(VarianceIncrementor_mean(asc), VMean)
        /\ Near(VarianceIncrementor_mean(rev), VMean)
        /\ Near(VarianceIncrementor_variance(asc), Variance)
        /\ Near(VarianceIncrementor_variance(rev), Variance)
        /\ Close(VMean, XSum(multiset), n)
        /\ n = 1 => Variance = Zero
        /\ n >= 2 => Close(Variance, ScaledSumSqDev(multiset), n * n * (n - 1))

C7_Witness ==
  /\ v_vals = <<Dy(-3, -1), Dy(2, 0), Dy(-3, -1)>>
  /\ VMean /= VarianceIncrementor_mean(RunVariance(Sorted(v_vals)))
  /\ Near(VMean, VarianceIncrementor_mean(RunVariance(Sorted(v_vals))))

\* C8: after add(0), add(1) the mean is 1/2, and after then
\* add(1), add(2) the mean is 1/2.
C8_DocExample ==
  /\ m_vals = <<Zero, One>> => MMean = Dy(1, -1)
  /\ m_vals = <<Zero, One, One, Dy(2, 0)>> => MMean = Dy(1, -1)

\* C9: fed the same values, the VarianceIncrementor and the standalone
\* MeanIncrementor agree on mean() and count(), bit for bit; each
\* VarianceIncrementor.add advances the owned accumulator by one
\* MeanIncrementor.add of that value from what the accessors reported; the
\* accessors change no state (the state is always the one the add calls
\* alone produce) and return the fields they name.
C9_Agree ==
  /\ m_calls = v_calls => /\ VMean = MMean
                          /\ VCount = MCount
  /\ LET owned == [mean |-> VMean, count |-> VCount]
     IN  \A value \in Values :
           LET after == VarianceIncrementor_add(variance_incr, value, overflow_checks).self
           IN  /\ VarianceIncrementor_mean(after) =
                    MeanIncrementor_add(owned, value, overflow_checks).self.mean
               /\ VarianceIncrementor_count(after) =
                    MeanIncrementor_add(owned, value, overflow_checks).self.count
  /\ variance_incr = RunVariance(v_vals)
  /\ VMean = variance_incr.mean_incrementor.mean
  /\ VCount = variance_incr.mean_incrementor.count
  /\ Variance = variance_incr.variance

C9_Witness ==
  /\ m_calls = 3
  /\ v_calls = 3
  /\ v_vals = <<Dy(-3, -1), One, Dy(2, 0)>>
  /\ VMean = MMean
  /\ MMean /= Variance

AllEqual(s) == \A i \in 1..Len(s) : s[i] = s[1]

\* C10 (as stated): variance() >= 0, and with count() >= 2 it is 0 only if
\* all values added so far are equal.
C10_ZeroOnlyIfEqual ==
  /\ IsFinite(Variance)
  /\ Variance = Zero \/ Variance.s = 1
  /\ (VCount >= 2 /\ Variance = Zero) => AllEqual(v_vals)

\* C10 (amended): variance() >= 0, and with count() >= 2 it is 0 only if
\* all values added so far are equal to within rounding (within Tol of the
\* first).
C10_ZeroOnlyIfNear ==
  /\ IsFinite(Variance)
  /\ Variance = Zero \/ Variance.s = 1
  /\ (VCount >= 2 /\ Variance = Zero) => \A i \in 1..v_calls : Near(v_vals[i], v_vals[1])

C10_Witness ==
  /\ v_calls = 3
  /\ v_vals = <<Zero, Dy(1, -600), Zero>>
  /\ Variance = Zero
  /\ VMean /= Zero
====
